---------------------------- MODULE Spec2Model ----------------------------
(***************************************************************************)
(* A model of seashore: the Shell execution context (shell.py), the        *)
(* argument encoders and command builders (command.py, executor.py) and    *)
(* the Executor's command registry (executor.py).                          *)
(*                                                                         *)
(* Command-line text is a sequence of one-character strings, and a path or  *)
(* an environment value a sequence of pieces, so that concatenation,       *)
(* str.replace, str.rstrip and str() are computed, not assumed.            *)
(* Names of the standard library that the files use without importing      *)
(* them (os, subprocess, uuid, contextlib, ...) are read as the standard   *)
(* library's.                                                              *)
(***************************************************************************)
EXTENDS Integers, Sequences, FiniteSets, TLC

VARIABLES
    dicts,      \* heap of dict objects: dicts[r] is the mapping of dict r
    shells,     \* heap of shell objects: [env |-> dict reference, cwd |-> path]
    executors,  \* heap of Executor objects: [shell |-> shell reference]
    lastOp,     \* the last call made on a Shell or an Executor, and its outcome
    pc,         \* where Shell.run_command stands: idle, or the step it is about to take
    call,       \* cmd_args and run_args of the run_command call in progress (or last made)
    uuids,      \* how many uuid4() values have been drawn
    root_name,  \* root_name of the call in progress
    handles,    \* every file object opened so far: [path, mode, open]
    stack,      \* the file objects entered into the ExitStack of the call in progress
    output_args,\* output_args of the call in progress
    outcome,    \* how the last run_command call ended
    lastBuild,  \* the last argument vector built or option encoded, with its inputs
    commands,   \* Executor._commands: the names given to add_command
    lastExec    \* the last expression evaluated on the Executor, and its outcome

varsShell == <<dicts, shells, executors, lastOp>>

varsRun == <<pc, call, uuids, root_name, handles, stack, output_args, outcome>>

varsCmd == <<lastBuild>>

varsExec == <<commands, lastExec>>

vars == <<varsShell, varsRun, varsCmd, varsExec>>

exceptShell == <<varsRun, varsCmd, varsExec>>

exceptRun == <<varsShell, varsCmd, varsExec>>

exceptCmd == <<varsShell, varsRun, varsExec>>

exceptExec == <<varsShell, varsRun, varsCmd>>

-----------------------------------------------------------------------------
(* Bounds                                                                  *)

MaxShells == 3
MaxExecutors == 1
MaxRuns == 2
MaxOptions == 2
MaxSegments == 2

-----------------------------------------------------------------------------
(* Values of an environment mapping: a string, or Python's None             *)

None == [isNone |-> TRUE, s |-> <<>>]

Str(s) == [isNone |-> FALSE, s |-> s]

\* dict.pop(key, default): the mapping without key (no error when absent)
DictPop(d, key) == [k \in (DOMAIN d) \ {key} |-> d[k]]

\* d[key] = value
DictSet(d, key, value) ==
    [k \in (DOMAIN d) \cup {key} |-> IF k = key THEN value ELSE d[k]]

-----------------------------------------------------------------------------
(* Shell (shell.py)                                                         *)

\* the body of the loop of Shell.patch_env for one (key, value) of kwargs
PatchEnvStep(new_env, key, value) ==
    LET popped == IF value = None THEN DictPop(new_env, key) ELSE new_env
    IN  DictSet(popped, key, value)

RECURSIVE PatchEnvLoop(_, _)
PatchEnvLoop(new_env, kwargs) ==
    IF kwargs = <<>> THEN new_env
    ELSE PatchEnvLoop(PatchEnvStep(new_env, Head(kwargs)[1], Head(kwargs)[2]),
                      Tail(kwargs))

\* a patch_env that ran its loop on self.env itself (new_env = self.env)
PatchEnvAliased(ds, self_env, kwargs) ==
    [dicts |-> [ds EXCEPT ![self_env] = PatchEnvLoop(ds[self_env], kwargs)],
     ref   |-> self_env]

\* Shell.patch_env up to the call of attrs.evolve: new_env = dict(self.env) is
\* a fresh dict, the loop runs on it, and it is the env handed to evolve
PatchEnvNew(ds, self_env, kwargs) ==
    [dicts |-> Append(ds, PatchEnvLoop(ds[self_env], kwargs)),
     ref   |-> Len(ds) + 1]

\* Shell.in_virtual_env, the try/except/else that computes old_path
InVirtualEnvOldPath(env) ==
    IF "PATH" \notin DOMAIN env THEN [ok |-> TRUE, s |-> <<>>, err |-> "none"]
    ELSE IF env["PATH"] = None
         THEN [ok |-> FALSE, s |-> <<>>, err |-> "TypeError"]
         ELSE [ok |-> TRUE, s |-> <<":">> \o env["PATH"].s, err |-> "none"]

\* the keyword arguments Shell.in_virtual_env writes for its call
InVirtualEnvKwargs(venv_dir, old_path) ==
    << <<"VIRTUALENV", Str(venv_dir)>>,
       <<"PYTHON_HOME", None>>,
       <<"PATH", Str(venv_dir \o <<"/bin">> \o old_path)>> >>

\* the methods class Shell defines; in_virtual_env calls self.patchenv
ShellMethods == {"patch_env", "in_virtual_env", "chdir", "run", "run_command"}

\* pathlib's self.cwd / new_dir: an absolute new_dir replaces the path
PathJoin(cwd, new_dir) ==
    IF new_dir # <<>> /\ Head(new_dir) = "/" THEN new_dir ELSE cwd \o new_dir

-----------------------------------------------------------------------------
(* The shell an Executor holds (tests/test_executor.py, DummyShell)         *)

\* DummyShell.clone: attr.assoc(self, _env=dict(self._env))
CloneShell(ds, shs, sh) ==
    [dicts  |-> Append(ds, ds[shs[sh].env]),
     shells |-> Append(shs, [shs[sh] EXCEPT !.env = Len(ds) + 1]),
     ref    |-> Len(shs) + 1]

\* DummyShell.setenv, for every (key, value) of kwargs in order
RECURSIVE SetenvLoop(_, _)
SetenvLoop(env, kwargs) ==
    IF kwargs = <<>> THEN env
    ELSE SetenvLoop(DictSet(env, Head(kwargs)[1], Head(kwargs)[2]), Tail(kwargs))

\* chdir of the mutable shell an Executor expects: the clone's own cwd changes
ShellChdirInPlace(shs, sh, path) ==
    [shs EXCEPT ![sh].cwd = PathJoin(shs[sh].cwd, path)]

-----------------------------------------------------------------------------
(* Inputs of the Shell and Executor operations                              *)

EnvKeys == {"A", "PATH"}

InitialEnvs ==
    { [k \in {"A"} |-> Str(<<"1">>)],
      [k \in {"PATH", "PYTHONHOME"} |-> Str(<<"/usr/bin">>)] }

PatchValues == {None, Str(<<"1">>)}

\* keyword arguments: distinct keys, in the order written
Kwargs ==
    { <<p>> : p \in {"A"} \X PatchValues } \cup
    { << <<"A", None>>, <<"PATH", None>> >> }

Dirs == { <<"sub">>, <<"/", "tmp">> }

VenvDirs == { <<"/venv">> }

NoOp == [op |-> "none", recv |-> 0, kwargs |-> <<>>, arg |-> <<>>,
         ok |-> TRUE, res |-> 0, err |-> "none"]

Returned(op, recv, kwargs, arg, res) ==
    [op |-> op, recv |-> recv, kwargs |-> kwargs, arg |-> arg,
     ok |-> TRUE, res |-> res, err |-> "none"]

Raised(op, recv, kwargs, arg, err) ==
    [op |-> op, recv |-> recv, kwargs |-> kwargs, arg |-> arg,
     ok |-> FALSE, res |-> 0, err |-> err]

NoCall == [cmd_args |-> <<>>, text |-> TRUE, check |-> TRUE, output |-> "PASS_THROUGH"]

NoOutputArgs == [stdout |-> 0, stderr |-> 0, capture_output |-> FALSE]

NoOutcome == [kind |-> "none", type |-> "none", exited |-> FALSE, returncode |-> 0,
              cmd |-> <<>>, stdout |-> "None", stderr |-> "None"]

NoBuild == [fn |-> "none", module |-> "none", sub |-> <<>>, args |-> <<>>, kwargs |-> <<>>,
            ok |-> TRUE, tokens |-> <<>>, err |-> "none"]

NoExec == [op |-> "none", name |-> <<>>, sub |-> <<>>, ok |-> TRUE, err |-> "none",
           binary |-> <<>>, batch |-> <<>>]

Init ==
    /\ dicts = <<>>
    /\ shells = <<>>
    /\ executors = <<>>
    /\ lastOp = NoOp
    /\ pc = "idle"
    /\ call = NoCall
    /\ uuids = 0
    /\ root_name = 0
    /\ handles = <<>>
    /\ stack = <<>>
    /\ output_args = NoOutputArgs
    /\ outcome = NoOutcome
    /\ lastBuild = NoBuild
    /\ commands = {}
    /\ lastExec = NoExec

\* Shell(cwd=..., env=...)
NewShell(env, cwd) ==
    /\ Len(shells) < MaxShells
    /\ dicts' = Append(dicts, env)
    /\ shells' = Append(shells, [env |-> Len(dicts) + 1, cwd |-> cwd])
    /\ lastOp' = Returned("Shell", 0, <<>>, cwd, Len(shells) + 1)
    /\ UNCHANGED <<executors, exceptShell>>

\* Shell.patch_env(**kwargs)
ShellPatchEnv(self, kwargs) ==
    /\ Len(shells) < MaxShells
    /\ LET new == PatchEnvNew(dicts, shells[self].env, kwargs)
       IN  /\ dicts' = new.dicts
           /\ shells' = Append(shells, [shells[self] EXCEPT !.env = new.ref])
    /\ lastOp' = Returned("patch_env", self, kwargs, <<>>, Len(shells) + 1)
    /\ UNCHANGED <<executors, exceptShell>>

\* Shell.chdir(new_dir): attrs.evolve keeps the receiver's env object
ShellChdir(self, new_dir) ==
    /\ Len(shells) < MaxShells
    /\ shells' = Append(shells,
                        [shells[self] EXCEPT !.cwd = PathJoin(shells[self].cwd, new_dir)])
    /\ lastOp' = Returned("chdir", self, <<>>, new_dir, Len(shells) + 1)
    /\ UNCHANGED <<dicts, executors, exceptShell>>

\* Shell.in_virtual_env(venv_dir)
ShellInVirtualEnv(self, venv_dir) ==
    /\ LET old == InVirtualEnvOldPath(dicts[shells[self].env])
       IN  lastOp' =
             IF ~old.ok
             THEN Raised("in_virtual_env", self, <<>>, venv_dir, old.err)
             ELSE IF "patchenv" \notin ShellMethods
                  THEN Raised("in_virtual_env", self,
                              InVirtualEnvKwargs(venv_dir, old.s), venv_dir,
                              "AttributeError")
                  ELSE Returned("in_virtual_env", self,
                                InVirtualEnvKwargs(venv_dir, old.s), venv_dir, 0)
    /\ UNCHANGED <<dicts, shells, executors, exceptShell>>

\* Executor(shell)
NewExecutor(sh) ==
    /\ Len(executors) < MaxExecutors
    /\ executors' = Append(executors, [shell |-> sh])
    /\ lastOp' = Returned("Executor", 0, <<>>, <<>>, Len(executors) + 1)
    /\ UNCHANGED <<dicts, shells, exceptShell>>

\* Executor.patch_env(**kwargs)
ExecutorPatchEnv(self, kwargs) ==
    /\ Len(shells) < MaxShells
    /\ Len(executors) < MaxExecutors + 1
    /\ LET c == CloneShell(dicts, shells, executors[self].shell)
       IN  /\ dicts' = [c.dicts EXCEPT ![c.shells[c.ref].env] =
                            SetenvLoop(c.dicts[c.shells[c.ref].env], kwargs)]
           /\ shells' = c.shells
           /\ executors' = Append(executors, [shell |-> c.ref])
    /\ lastOp' = Returned("Executor.patch_env", self, kwargs, <<>>, Len(executors) + 1)
    /\ UNCHANGED exceptShell

\* Executor.chdir(path)
ExecutorChdir(self, path) ==
    /\ Len(shells) < MaxShells
    /\ Len(executors) < MaxExecutors + 1
    /\ LET c == CloneShell(dicts, shells, executors[self].shell)
       IN  /\ dicts' = c.dicts
           /\ shells' = ShellChdirInPlace(c.shells, c.ref, path)
           /\ executors' = Append(executors, [shell |-> c.ref])
    /\ lastOp' = Returned("Executor.chdir", self, <<>>, path, Len(executors) + 1)
    /\ UNCHANGED exceptShell

\* Executor.in_virtualenv(envpath): new_shell is not a name of the function, so
\* evaluating new_shell.getenv('PATH') raises NameError, which except KeyError
\* does not catch
ExecutorInVirtualenv(self, envpath) ==
    /\ lastOp' = Raised("Executor.in_virtualenv", self,
                        << <<"VIRTUAL_ENV", Str(envpath)>>, <<"PYTHONHOME", None>> >>,
                        envpath, "NameError")
    /\ UNCHANGED <<dicts, shells, executors, exceptShell>>

NextShell ==
    \/ \E env \in InitialEnvs, cwd \in {<<"/", "home">>} : NewShell(env, cwd)
    \/ \E s \in DOMAIN shells, kw \in Kwargs : ShellPatchEnv(s, kw)
    \/ \E s \in DOMAIN shells, d \in Dirs : ShellChdir(s, d)
    \/ \E s \in DOMAIN shells, v \in VenvDirs : ShellInVirtualEnv(s, v)
    \/ \E s \in DOMAIN shells : NewExecutor(s)
    \/ \E e \in DOMAIN executors, kw \in Kwargs : ExecutorPatchEnv(e, kw)
    \/ \E e \in DOMAIN executors, d \in Dirs : ExecutorChdir(e, d)
    \/ \E e \in DOMAIN executors, v \in VenvDirs : ExecutorInVirtualenv(e, v)

SpecShell == Init /\ [][NextShell]_vars

-----------------------------------------------------------------------------
(* Shell.run_command (shell.py)                                             *)

CmdArgs == { <<"true">>, <<"false", "x">> }

Outputs == {"LOG", "CAPTURE", "PASS_THROUGH"}

RunArgs == [text : BOOLEAN, check : BOOLEAN, output : Outputs]

ExitCodes == {0, 1}

\* mode of the log files
LogMode(text) == IF text = TRUE THEN "w+" ELSE "w+b"

\* the name written for the file that receives stdout
StdoutPath(root) == <<root, ".out">>

\* the name written for the file that receives stderr
StderrPath(root) == <<root, ".out">>

Range(seq) == { seq[i] : i \in DOMAIN seq }

\* a with block that closed nothing on the way out
ExitStackCloseNone(hs, st) == hs

\* leaving the with block: ExitStack closes every file object entered
ExitStackClose(hs, st) ==
    [h \in DOMAIN hs |-> IF h \in Range(st) THEN [hs[h] EXCEPT !.open = FALSE] ELSE hs[h]]

\* subprocess.run's result when the process has exited with returncode
CompletedProcess(c, oa, returncode) ==
    [kind |-> "returned", type |-> "CompletedProcess", exited |-> TRUE,
     returncode |-> returncode, cmd |-> c.cmd_args,
     stdout |-> IF oa.capture_output THEN "captured" ELSE "None",
     stderr |-> IF oa.capture_output THEN "captured" ELSE "None"]

\* the except clause of run_command: return VisibleCalledProcessError
\* .from_called_process_error(exc), which keeps exc with its stdout, stderr and cmd
ExceptCalledProcessError(exc) ==
    [exc EXCEPT !.kind = "returned", !.type = "VisibleCalledProcessError"]

Failure(type, c) ==
    [kind |-> "raised", type |-> type, exited |-> FALSE, returncode |-> 0,
     cmd |-> c.cmd_args, stdout |-> "None", stderr |-> "None"]

\* run_command(cmd_args, run_args) up to the first file it opens or, without
\* LOG, up to the call of the process runner
RunCommand(cmd_args, run_args) ==
    /\ pc = "idle"
    /\ uuids < MaxRuns
    /\ call' = [cmd_args |-> cmd_args, text |-> run_args.text,
                check |-> run_args.check, output |-> run_args.output]
    /\ stack' = <<>>
    /\ outcome' = NoOutcome
    /\ IF run_args.output = "LOG"
       THEN /\ uuids' = uuids + 1
            /\ root_name' = uuids + 1
            /\ output_args' = NoOutputArgs
            /\ pc' = "open_stdout"
       ELSE /\ output_args' = [NoOutputArgs EXCEPT
                                  !.capture_output = (run_args.output = "CAPTURE")]
            /\ pc' = "run"
            /\ UNCHANGED <<uuids, root_name>>
    /\ UNCHANGED <<handles, exceptRun>>

\* stack.enter_context(<path>.open(mode)) for stdout. Building the path
\* (log_dir / root_name + ".out" raises TypeError when log_dir / root_name is
\* a pathlib.Path) or opening the file may raise; the with block is then left.
OpenStdout(err) ==
    /\ pc = "open_stdout"
    /\ IF err = "none"
       THEN /\ handles' = Append(handles, [path |-> StdoutPath(root_name),
                                           mode |-> LogMode(call.text), open |-> TRUE])
            /\ stack' = Append(stack, Len(handles) + 1)
            /\ pc' = "open_stderr"
            /\ UNCHANGED outcome
       ELSE /\ handles' = ExitStackClose(handles, stack)
            /\ stack' = <<>>
            /\ outcome' = Failure(err, call)
            /\ pc' = "idle"
    /\ UNCHANGED <<call, uuids, root_name, output_args, exceptRun>>

\* stack.enter_context(<path>.open(mode)) for stderr, then output_args.update
OpenStderr(err) ==
    /\ pc = "open_stderr"
    /\ IF err = "none"
       THEN /\ handles' = Append(handles, [path |-> StderrPath(root_name),
                                           mode |-> LogMode(call.text), open |-> TRUE])
            /\ stack' = Append(stack, Len(handles) + 1)
            /\ output_args' = [output_args EXCEPT !.stdout = stack[1],
                                                  !.stderr = Len(handles) + 1]
            /\ pc' = "run"
            /\ UNCHANGED outcome
       ELSE /\ handles' = ExitStackClose(handles, stack)
            /\ stack' = <<>>
            /\ outcome' = Failure(err, call)
            /\ pc' = "idle"
            /\ UNCHANGED output_args
    /\ UNCHANGED <<call, uuids, root_name, exceptRun>>

\* self._subprocess_run(cmd_args, check=..., text=..., **output_args) with the
\* process exiting with returncode, the except clause, and leaving the with block
SubprocessRun(returncode) ==
    /\ pc = "run"
    /\ outcome' = IF call.check /\ returncode # 0
                  THEN ExceptCalledProcessError(CompletedProcess(call, output_args, returncode))
                  ELSE CompletedProcess(call, output_args, returncode)
    /\ handles' = ExitStackClose(handles, stack)
    /\ stack' = <<>>
    /\ pc' = "idle"
    /\ UNCHANGED <<call, uuids, root_name, output_args, exceptRun>>

\* the process runner fails to start the process: the exception is not a
\* CalledProcessError and leaves run_command through the with block
SubprocessFails ==
    /\ pc = "run"
    /\ outcome' = Failure("OSError", call)
    /\ handles' = ExitStackClose(handles, stack)
    /\ stack' = <<>>
    /\ pc' = "idle"
    /\ UNCHANGED <<call, uuids, root_name, output_args, exceptRun>>

NextRun ==
    \/ \E c \in CmdArgs, r \in RunArgs : RunCommand(c, r)
    \/ \E err \in {"none", "TypeError", "OSError"} : OpenStdout(err)
    \/ \E err \in {"none", "TypeError", "OSError"} : OpenStderr(err)
    \/ \E rc \in ExitCodes : SubprocessRun(rc)
    \/ SubprocessFails

SpecRun == Init /\ [][NextRun]_vars

-----------------------------------------------------------------------------
(* Option values and their encoding (command.py, executor.py)               *)

\* A Python value: tag is its type; s its text (str, Eq.content), n its number
\* (int), items its elements (list) or its (key, value) entries (dict).
Val(tag, s, n, items) == [tag |-> tag, s |-> s, n |-> n, items |-> items]

S(s) == Val("str", s, 0, <<>>)

I(n) == Val("int", <<>>, n, <<>>)

EqOf(content) == Val("Eq", content, 0, <<>>)

L(items) == Val("list", <<>>, 0, items)

D(items) == Val("dict", <<>>, 0, items)

\* command.NO_VALUE, an instance of _NoValue
NoValueMarker == Val("_NoValue", <<>>, 0, <<>>)

\* executor.NO_VALUE, a bare object()
ObjectMarker == Val("object", <<>>, 0, <<>>)

Float == Val("float", <<"1", ".", "5">>, 0, <<>>)

Digits == <<"0", "1", "2", "3", "4", "5", "6", "7", "8", "9">>

RECURSIVE NatStr(_)
NatStr(n) == IF n < 10 THEN <<Digits[n + 1]>> ELSE NatStr(n \div 10) \o <<Digits[(n % 10) + 1]>>

\* str(value) of an int
IntStr(n) == IF n < 0 THEN <<"-">> \o NatStr(-n) ELSE NatStr(n)

\* str(value), as '{}'.format(value) gives it for a str or an int
PyStr(v) == IF v.tag = "int" THEN IntStr(v.n) ELSE v.s

\* str.replace(old, new) for one-character old and new
RECURSIVE Replace(_, _, _)
Replace(s, old, new) ==
    IF s = <<>> THEN <<>>
    ELSE <<IF Head(s) = old THEN new ELSE Head(s)>> \o Replace(Tail(s), old, new)

\* '--' + key.replace('_', '-')
OptionKey(key) == <<"-", "-">> \o Replace(key, "_", "-")

Tokens(toks) == [ok |-> TRUE, tokens |-> toks, err |-> "none"]

Fails(err) == [ok |-> FALSE, tokens |-> <<>>, err |-> err]

\* _keyword_arguments_list: for thing in value: yield key; yield thing
RECURSIVE KeywordArgumentsList(_, _)
KeywordArgumentsList(items, key) ==
    IF items = <<>> THEN <<>>
    ELSE <<S(key), Head(items)>> \o KeywordArgumentsList(Tail(items), key)

\* _keyword_arguments_dict: yield key; yield '{}={}'.format(in_k, thing)
RECURSIVE KeywordArgumentsDict(_, _)
KeywordArgumentsDict(items, key) ==
    IF items = <<>> THEN <<>>
    ELSE <<S(key), S(PyStr(Head(items)[1]) \o <<"=">> \o PyStr(Head(items)[2]))>>
         \o KeywordArgumentsDict(Tail(items), key)

\* the implementations registered for Eq, str, int, list and dict (both modules)
Registered(value, key) ==
    CASE value.tag = "Eq"   -> <<S(key \o <<"=">> \o value.s)>>
      [] value.tag = "str"  -> <<S(key), value>>
      [] value.tag = "int"  -> <<S(key), S(IntStr(value.n))>>
      [] value.tag = "list" -> KeywordArgumentsList(value.items, key)
      [] value.tag = "dict" -> KeywordArgumentsDict(value.items, key)

RegisteredTags == {"Eq", "str", "int", "list", "dict"}

\* command._keyword_arguments: single dispatch on the type of value; _NoValue is
\* registered too and the default implementation raises ValueError
CommandKeywordArguments(value, key) ==
    IF value.tag \in RegisteredTags THEN Tokens(Registered(value, key))
    ELSE IF value.tag = "_NoValue" THEN Tokens(<<S(key)>>)
    ELSE Fails("ValueError")

\* executor._keyword_arguments: the default implementation yields key
ExecutorKeywordArguments(value, key) ==
    IF value.tag \in RegisteredTags THEN Tokens(Registered(value, key))
    ELSE Tokens(<<S(key)>>)

KeywordArguments(module, value, key) ==
    IF module = "command" THEN CommandKeywordArguments(value, key)
    ELSE ExecutorKeywordArguments(value, key)

\* the loop over kwargs.items() of cmd and of _Arguments.__iter__: the tokens of
\* every option in insertion order; the first encoding that raises ends it
RECURSIVE OptionTokens(_, _)
OptionTokens(module, kwargs) ==
    IF kwargs = <<>> THEN Tokens(<<>>)
    ELSE LET first == KeywordArguments(module, Head(kwargs)[2], OptionKey(Head(kwargs)[1]))
             rest  == OptionTokens(module, Tail(kwargs))
         IN  IF ~first.ok THEN first
             ELSE IF ~rest.ok THEN rest
             ELSE Tokens(first.tokens \o rest.tokens)

\* the strings of a sequence of texts, as str values
RECURSIVE Strs(_)
Strs(ss) == IF ss = <<>> THEN <<>> ELSE <<S(Head(ss))>> \o Strs(Tail(ss))

\* executor.cmd(binary, *args, **kwargs)
Cmd(binary, args, kwargs) ==
    LET opts == OptionTokens("executor", kwargs)
    IN  IF opts.ok THEN Tokens(<<S(binary)>> \o Strs(args) \o opts.tokens) ELSE opts

\* list(_Arguments(args, kwargs)): _Arguments.__iter__
ArgumentsIter(args, kwargs) ==
    LET opts == OptionTokens("command", kwargs)
    IN  IF opts.ok THEN Tokens(opts.tokens \o Strs(args)) ELSE opts

\* Command(subcommand, cmd_args), run_args left at its default
NewCommand(subcommand, cmd_args) == [subcommand |-> subcommand, cmd_args |-> cmd_args]

\* Command.__getattr__(name)
CommandGetattr(c, name) ==
    [c EXCEPT !.subcommand = @ \o <<S(Replace(name, "_", "-"))>>]

RECURSIVE CommandGetattrs(_, _)
CommandGetattrs(c, names) ==
    IF names = <<>> THEN c
    ELSE CommandGetattrs(CommandGetattr(c, Head(names)), Tail(names))

\* Command.__call__(cmd_args) with no run argument: new_cmd_args.extend(cmd_args)
\* consumes the iterable cmd_args, here the tokens it yields
CommandCall(c, tokens) == [c EXCEPT !.cmd_args = @ \o tokens]

\* Command.__radd__: total_args
TotalArgs(c) == c.subcommand \o c.cmd_args

\* the names module shell defines; Command.__radd__ calls shell.run
ShellModuleNames == {"Output", "RunArgs", "Shell", "VisibleCalledProcessError"}

-----------------------------------------------------------------------------
(* Inputs of the builders                                                   *)

T_a == <<"a">>
T_b == <<"b">>
T_c == <<"c">>
T_git == <<"g", "i", "t">>
T_quiet == <<"q">>
T_e_u == <<"e", "_", "u">>
T_show_x == <<"s", "h", "o", "w", "_", "x">>

PositionalArgs == { <<>>, <<T_a>>, <<T_a, T_b>> }

OptionNames == { T_quiet, T_e_u }

\* the no-value marker of each module: command.NO_VALUE is an instance of
\* _NoValue, executor.NO_VALUE a bare object()
Marker(module) == IF module = "command" THEN NoValueMarker ELSE ObjectMarker

\* the option values given to a module's encoder: its marker, a value of a
\* type it registers nothing for, and values of the registered types
OptionValues(module) ==
    { Marker(module), Float, EqOf(T_c), S(T_a), I(12), I(-3),
      L(<<>>), L(<<S(T_a), S(T_b)>>), L(<<EqOf(T_c)>>), L(<<S(T_a), I(7)>>),
      D(<< <<S(T_a), S(T_b)>>, <<S(T_c), I(10)>> >>) }

\* keyword arguments of at most n options: distinct names, in the order written
KwargsFrom(names, values, n) ==
    UNION { { kw \in [1..k -> names \X values] :
                \A i, j \in 1..k : i # j => kw[i][1] # kw[j][1] } : k \in 0..n }

\* the values drawn when several options are given at once
PairValues(module) == { Marker(module), Float, S(T_a), L(<<S(T_a), S(T_b)>>) }

KwargsOf(module, n) ==
    KwargsFrom(OptionNames, OptionValues(module), 1)
        \cup KwargsFrom(OptionNames, PairValues(module), n)

Segments == { <<>>, <<T_a>>, <<T_show_x>>, <<T_a, T_show_x>>, <<T_show_x, T_a, T_b>> }

Built(fn, module, sub, args, kwargs, r) ==
    [fn |-> fn, module |-> module, sub |-> sub, args |-> args, kwargs |-> kwargs,
     ok |-> r.ok, tokens |-> r.tokens, err |-> r.err]

\* _keyword_arguments(value, key) of either module, consumed as a list
Encode(module, name, value) ==
    /\ lastBuild' = Built("encode", module, <<>>, <<>>, << <<name, value>> >>,
                          KeywordArguments(module, value, OptionKey(name)))
    /\ UNCHANGED exceptCmd

\* executor.cmd(binary, *args, **kwargs)
CallCmd(binary, args, kwargs) ==
    /\ lastBuild' = Built("cmd", "executor", <<binary>>, args, kwargs,
                          Cmd(binary, args, kwargs))
    /\ UNCHANGED exceptCmd

\* list(command.args(*args, **kwargs))
CallArgs(args, kwargs) ==
    /\ lastBuild' = Built("args", "command", <<>>, args, kwargs,
                          ArgumentsIter(args, kwargs))
    /\ UNCHANGED exceptCmd

\* a_shell + Command([], []).<name>...(args(*args, **kwargs)): the attribute
\* accesses, the call, and __radd__, which builds total_args and then looks up
\* shell.run; an encoding that raises ends the expression in __call__
RunCommandObject(names, args, kwargs) ==
    /\ Len(names) <= MaxSegments
    /\ LET c == CommandGetattrs(NewCommand(<<>>, <<>>), names)
           r == ArgumentsIter(args, kwargs)
       IN  lastBuild' =
             IF ~r.ok THEN Built("call", "command", names, args, kwargs, r)
             ELSE IF "run" \notin ShellModuleNames
                  THEN Built("radd", "command", names, args, kwargs,
                             [ok |-> FALSE, err |-> "AttributeError",
                              tokens |-> TotalArgs(CommandCall(c, r.tokens))])
                  ELSE Built("radd", "command", names, args, kwargs,
                             Tokens(TotalArgs(CommandCall(c, r.tokens))))
    /\ UNCHANGED exceptCmd

NextCmd ==
    \/ \E m \in {"command", "executor"}, n \in OptionNames :
          \E v \in OptionValues(m) : Encode(m, n, v)
    \/ \E a \in PositionalArgs, kw \in KwargsOf("executor", MaxOptions) :
          CallCmd(T_git, a, kw)
    \/ \E a \in PositionalArgs, kw \in KwargsOf("command", MaxOptions) : CallArgs(a, kw)
    \/ \E n \in Segments, a \in {<<>>, <<T_a>>},
          kw \in KwargsFrom({T_e_u}, PairValues("command"), 1) :
             RunCommandObject(n, a, kw)

SpecCmd == Init /\ [][NextCmd]_vars

-----------------------------------------------------------------------------
(* Executor: the command registry (executor.py)                             *)

T_pip == <<"p", "i", "p">>
T_conda == <<"c", "o", "n", "d", "a">>
T_docker == <<"d", "o", "c", "k", "e", "r">>
T_apt_get == <<"a", "p", "t", "_", "g", "e", "t">>
T_dunder == <<"_", "_", "x", "_", "_">>
T_prepare == <<"p", "r", "e", "p", "a", "r", "e">>
T_chdir == <<"c", "h", "d", "i", "r">>
T_update == <<"u", "p", "d", "a", "t", "e">>
T_dry_run_ == <<"d", "r", "y", "_", "r", "u", "n", "_">>

\* the Command objects defined as members of class Executor
BuiltinCommands == { T_git, T_pip, T_conda, T_docker }

\* the other attributes an Executor has among the names of this model: its
\* methods and fields, found by normal lookup before __getattr__ is tried
OtherAttributes == { T_chdir }

\* name.startswith('__') and name.endswith('__')
IsDunder(name) ==
    /\ Len(name) >= 2
    /\ name[1] = "_" /\ name[2] = "_"
    /\ name[Len(name) - 1] = "_" /\ name[Len(name)] = "_"

\* str.rstrip('_')
RECURSIVE RStrip(_)
RStrip(s) ==
    IF s # <<>> /\ s[Len(s)] = "_" THEN RStrip(SubSeq(s, 1, Len(s) - 1)) ELSE s

Bound(binary) == [ok |-> TRUE, kind |-> "command", binary |-> binary, err |-> "none"]

NotBound(kind, err) == [ok |-> (err = "none"), kind |-> kind, binary |-> <<>>, err |-> err]

\* Executor.__getattr__(name), called when normal lookup finds nothing
ExecutorGetattr(cmds, name) ==
    IF IsDunder(name) THEN NotBound("none", "AttributeError")
    ELSE IF name \notin cmds THEN NotBound("none", "AttributeError")
    ELSE Bound(Replace(name, "_", "-"))

\* executor.<name>: a Command member binds itself (Command.__get__ = bind), any
\* other attribute of the object is returned, and __getattr__ answers the rest
AttributeAccess(cmds, name) ==
    IF name \in BuiltinCommands THEN Bound(name)
    ELSE IF name \in OtherAttributes THEN NotBound("method", "none")
    ELSE ExecutorGetattr(cmds, name)

\* _ExecutoredCommand.__getattr__(subcommand) and the call of what it returns.
\* functools.partial(self._executor.prepare, ...) first evaluates
\* self._executor.prepare. Executor defines no prepare, so this is
\* Executor.__getattr__('prepare'): AttributeError, unless 'prepare' was given to
\* add_command; then it is an _ExecutoredCommand whose __call__ evaluates
\* self._executor.prepare(...) again, without end.
SubcommandCall(cmds, bound, subcommand) ==
    LET sub == Replace(RStrip(subcommand), "_", "-")
        prepare == AttributeAccess(cmds, T_prepare)
    IN  IF ~prepare.ok THEN [ok |-> FALSE, err |-> prepare.err, batch |-> <<>>]
        ELSE [ok |-> FALSE, err |-> "RecursionError", batch |-> <<>>]

\* the fields of _PreparedCommand; its batch reads self._cmd
PreparedCommandFields == {"_args", "_shell"}

Names == { T_git, T_apt_get, T_dunder, T_prepare, T_chdir }

\* Executor.add_command(name)
AddCommand(name) ==
    /\ commands' = commands \cup {name}
    /\ lastExec' = [NoExec EXCEPT !.op = "add_command", !.name = name]
    /\ UNCHANGED exceptExec

\* executor.<name>
GetAttribute(name) ==
    /\ LET r == AttributeAccess(commands, name)
       IN  lastExec' = [op |-> "getattr", name |-> name, sub |-> <<>>,
                        ok |-> r.ok /\ r.kind = "command",
                        err |-> IF r.ok /\ r.kind # "command" THEN "NotACommand" ELSE r.err,
                        binary |-> r.binary, batch |-> <<>>]
    /\ UNCHANGED <<commands, exceptExec>>

\* executor.<name>.<subcommand>().batch()
RunBatch(name, subcommand) ==
    /\ LET r == AttributeAccess(commands, name)
           p == SubcommandCall(commands, r, subcommand)
       IN  lastExec' =
             IF ~(r.ok /\ r.kind = "command")
             THEN [op |-> "batch", name |-> name, sub |-> subcommand, ok |-> FALSE,
                   err |-> "AttributeError", binary |-> <<>>, batch |-> <<>>]
             ELSE [op |-> "batch", name |-> name, sub |-> subcommand, ok |-> p.ok,
                   err |-> p.err, binary |-> r.binary, batch |-> p.batch]
    /\ UNCHANGED <<commands, exceptExec>>

\* executor.command(args).batch(): _PreparedCommand.batch evaluates self._cmd
CommandBatch(args) ==
    /\ lastExec' =
         IF "_cmd" \in PreparedCommandFields
         THEN [op |-> "command", name |-> <<>>, sub |-> <<>>, ok |-> TRUE,
               err |-> "none", binary |-> <<>>, batch |-> args]
         ELSE [op |-> "command", name |-> <<>>, sub |-> <<>>, ok |-> FALSE,
               err |-> "AttributeError", binary |-> <<>>, batch |-> <<>>]
    /\ UNCHANGED <<commands, exceptExec>>

NextExec ==
    \/ \E n \in Names : AddCommand(n)
    \/ \E n \in Names, s \in {T_update, T_dry_run_} : RunBatch(n, s)
    \/ \E n \in Names : GetAttribute(n)
    \/ \E a \in { <<T_a, T_b>> } : CommandBatch(a)

SpecExec == Init /\ [][NextExec]_vars

-----------------------------------------------------------------------------
(* Claims about Shell and Executor derivation, checked under SpecShell      *)

EnvOf(sh) == dicts[shells[sh].env]

\* C1: patching the environment with a key set to None yields an environment
\* without that key (equal to the receiver's when the key was absent), and no
\* key of a patched environment is mapped to None.
C1_UnsetRemovesKey ==
    (lastOp.op = "patch_env" /\ lastOp.ok) =>
        LET env  == EnvOf(lastOp.res)
            orig == EnvOf(lastOp.recv)
        IN  /\ \A i \in DOMAIN lastOp.kwargs :
                  lastOp.kwargs[i][2] = None => lastOp.kwargs[i][1] \notin DOMAIN env
            /\ \A k \in DOMAIN env : env[k] # None
            /\ \A k \in EnvKeys :
                  (lastOp.kwargs = << <<k, None>> >> /\ k \notin DOMAIN orig) => env = orig

\* the shell a derivation returned: the Shell itself, or the new Executor's shell
ResultShell ==
    IF lastOp.op = "in_virtual_env" THEN lastOp.res ELSE executors[lastOp.res].shell

ReceiverShell ==
    IF lastOp.op = "in_virtual_env" THEN lastOp.recv ELSE executors[lastOp.recv].shell

\* C8: deriving a virtual-environment context with path envPath returns a
\* context whose environment has VIRTUAL_ENV = envPath, no PYTHONHOME, and
\* PATH = envPath + "/bin" followed by ":" + the old PATH when there was one; a
\* missing PATH is no failure, and every other key is unchanged.
C8_VirtualEnvContext ==
    (lastOp.op \in {"in_virtual_env", "Executor.in_virtualenv"}) =>
        /\ lastOp.ok
        /\ LET env  == EnvOf(ResultShell)
               orig == EnvOf(ReceiverShell)
               tail == IF "PATH" \in DOMAIN orig THEN <<":">> \o orig["PATH"].s ELSE <<>>
           IN  /\ DOMAIN env = ((DOMAIN orig) \ {"PYTHONHOME"}) \cup {"VIRTUAL_ENV", "PATH"}
               /\ env["VIRTUAL_ENV"] = Str(lastOp.arg)
               /\ env["PATH"] = Str(lastOp.arg \o <<"/bin">> \o tail)
               /\ \A k \in (DOMAIN env) \ {"VIRTUAL_ENV", "PATH"} : env[k] = orig[k]

-----------------------------------------------------------------------------
(* Claims about Shell.run_command, checked under SpecRun                    *)

\* C2: a non-zero exit with check=True makes run_command raise (not return) an
\* error carrying the argument vector, stdout and stderr; with check=False it
\* raises nothing and returns a result carrying the exit code.
C2_NonZeroExit ==
    (pc = "idle" /\ outcome.exited /\ outcome.returncode # 0) =>
        IF call.check
        THEN /\ outcome.kind = "raised"
             /\ outcome.type = "VisibleCalledProcessError"
             /\ outcome.cmd = call.cmd_args
        ELSE /\ outcome.kind = "returned"
             /\ outcome.type = "CompletedProcess"

\* C3: in a LOG run the process gets two distinct open files named after one
\* uuid: <uuid>.out for stdout and <uuid>.err for stderr.
C3_DistinctLogFiles ==
    (pc = "run" /\ call.output = "LOG") =>
        /\ handles[output_args.stdout].path = <<root_name, ".out">>
        /\ handles[output_args.stderr].path = <<root_name, ".err">>
        /\ handles[output_args.stdout].path # handles[output_args.stderr].path

\* C4: a file object that run_command opened is open only while that call is
\* in progress and is on its ExitStack; once run_command has returned or
\* raised (pc = "idle") no file object is open, whatever the exit code, the
\* check flag, or the step that failed.
C4_LogHandlesClosed ==
    \A h \in DOMAIN handles :
        handles[h].open => (pc # "idle" /\ h \in Range(stack))

\* run_command has raised after three files were opened over two LOG runs: one
\* run opened both files, the other opened stdout and failed on stderr
C4_Witness ==
    /\ pc = "idle"
    /\ outcome.kind = "raised"
    /\ Len(handles) = 3
    /\ uuids = 2

-----------------------------------------------------------------------------
(* Claims about encoding and argument vectors, checked under SpecCmd        *)

\* C5: the vector built is the leading segments, then the positional arguments
\* in order, then the encoder's tokens of every option in insertion order.
C5_ArgvOrder ==
    (lastBuild.fn \in {"cmd", "args"} /\ OptionTokens(lastBuild.module, lastBuild.kwargs).ok) =>
        /\ lastBuild.ok
        /\ lastBuild.tokens = Strs(lastBuild.sub) \o Strs(lastBuild.args)
                              \o OptionTokens(lastBuild.module, lastBuild.kwargs).tokens

\* C6: encoding a supported value (no-value marker, Eq, str, int, list, dict)
\* gives tokens; encoding a value of any other type fails with an encoding
\* error and gives no tokens.
C6_EncodingTotality ==
    (lastBuild.fn = "encode") =>
        LET value == lastBuild.kwargs[1][2]
        IN  IF value.tag \in RegisteredTags \cup {Marker(lastBuild.module).tag}
            THEN lastBuild.ok
            ELSE ~lastBuild.ok /\ lastBuild.err = "ValueError" /\ lastBuild.tokens = <<>>

RECURSIVE ElementWise(_, _, _)
ElementWise(module, items, key) ==
    IF items = <<>> THEN <<>>
    ELSE KeywordArguments(module, Head(items), key).tokens
         \o ElementWise(module, Tail(items), key)

\* C7: a list-valued option encodes to the concatenation, in element order, of
\* each element's own encoding under the same option name.
C7_ListElementWise ==
    (lastBuild.fn = "encode" /\ lastBuild.kwargs[1][2].tag = "list") =>
        /\ lastBuild.ok
        /\ lastBuild.tokens = ElementWise(lastBuild.module, lastBuild.kwargs[1][2].items,
                                          OptionKey(lastBuild.kwargs[1][1]))

-----------------------------------------------------------------------------
(* Claims about the Executor's registry, checked under SpecExec             *)

\* C10: executor.<name> is a bound command exactly when <name> is built in or
\* was given to add_command, and raises AttributeError otherwise; the bound
\* command's binary is <name> with hyphens for underscores, and
\* executor.<name>.<sub>().batch() calls the shell's batch with [binary, sub].
C10_RegisteredCommandRuns ==
    /\ (lastExec.op = "getattr") =>
          /\ lastExec.ok <=> (lastExec.name \in BuiltinCommands \cup commands)
          /\ lastExec.ok => lastExec.binary = Replace(lastExec.name, "_", "-")
          /\ ~lastExec.ok => lastExec.err = "AttributeError"
    /\ (lastExec.op = "batch" /\ lastExec.name \in BuiltinCommands \cup commands) =>
          /\ lastExec.ok
          /\ lastExec.batch = << Replace(lastExec.name, "_", "-"),
                                 Replace(RStrip(lastExec.sub), "_", "-") >>

====
